---- MODULE Spec2Model ----
(***************************************************************************)
(* A model of app.py: the weekly bucketing of the purchase CSV             *)
(* (load_and_preprocess_data), the memoised global series, and the home()  *)
(* request handler: horizon input, forecast, quarterly rollup and the      *)
(* aligned chart series.                                                   *)
(*                                                                         *)
(* Dates are day numbers: day 1 is Monday 2024-01-01, so the Sundays are   *)
(* the multiples of 7 (day 7 = 2024-01-07).  Amounts are integers.         *)
(***************************************************************************)
EXTENDS Integers, Sequences, FiniteSets, TLC

VARIABLES
    file_exists,          \* os.path.exists(DATA_FILE)
    file_rows,            \* the rows of the CSV, in file order
    prophet,              \* the fit the forecasting library returns in this run
    request,              \* per request thread: the request it is to serve, or None
    df_resampled_global,  \* the module-level cache: None or the weekly frame
    started,              \* the __main__ block has made its startup call
    pc,                   \* per request thread: where it is in home()
    df_resampled,         \* per request thread: home()'s local df_resampled
    page,                 \* the arguments of the last generate_html call, with home()'s locals
    stores,               \* how many times line 44 has assigned df_resampled_global
    failures              \* how many calls of load_and_preprocess_data returned None (line 50)

vars == <<file_exists, file_rows, prophet, request, df_resampled_global, started, pc,
          df_resampled, page, stores, failures>>

\* ------------------------------------------------------------------ bounds

\* The longest CSV the model reads.
MaxRows == 2

\* The Purchase_Date values of the rows: Tuesday 2024-01-02 and Sunday
\* 2024-01-07 (the same week), Tuesday 2024-01-23 (three weeks later).
RowDates == {2, 7, 23}

\* The Purchase_Amount values of the rows.
RowAmounts == {-5, 10}

\* The request threads of the server.
Threads == {"t1", "t2"}

\* Python's None, a DataFrame, a float and a str as tagged values.
None == [kind |-> "None"]
DataFrame(rows) == [kind |-> "DataFrame", rows |-> rows]
Float(v) == [kind |-> "float", v |-> v]
Str(s) == [kind |-> "str", s |-> s]

\* ---------------------------------------------------------------- calendar

Min(S) == CHOOSE x \in S : \A z \in S : x <= z
Max(S) == CHOOSE x \in S : \A z \in S : x >= z

RECURSIVE SumUpTo(_, _)
SumUpTo(s, n) == IF n = 0 THEN 0 ELSE s[n] + SumUpTo(s, n - 1)

\* Series.sum(): 0 on an empty series.
SumSeq(s) == SumUpTo(s, Len(s))

IsLeap(y) == (y % 4 = 0 /\ y % 100 # 0) \/ y % 400 = 0

DaysInYear(y) == IF IsLeap(y) THEN 366 ELSE 365

DaysInMonth(y, m) ==
    IF m = 2 THEN (IF IsLeap(y) THEN 29 ELSE 28)
    ELSE IF m \in {4, 6, 9, 11} THEN 30 ELSE 31

RECURSIVE YearFrom(_, _)
YearFrom(y, n) ==
    IF n <= DaysInYear(y) THEN [year |-> y, doy |-> n]
    ELSE YearFrom(y + 1, n - DaysInYear(y))

RECURSIVE MonthFrom(_, _, _)
MonthFrom(y, m, n) ==
    IF n <= DaysInMonth(y, m) THEN [month |-> m, day |-> n]
    ELSE MonthFrom(y, m + 1, n - DaysInMonth(y, m))

\* The calendar date of a day number, as strftime('%Y-%m-%d') prints it.
Strftime(d) ==
    LET yd == YearFrom(2024, d)
        md == MonthFrom(yd.year, 1, yd.doy)
    IN  <<yd.year, md.month, md.day>>

\* .dt.year and .dt.quarter
DtYear(d) == Strftime(d)[1]
DtQuarter(d) == ((Strftime(d)[2] - 1) \div 3) + 1

\* ------------------------------------------------- load_and_preprocess_data

\* WeekEnd with the bins closed on the left: a Sunday falls in the next week.
WeekEndClosedLeft(d) == 7 * (d \div 7) + 7

\* The label of the 'W' (W-SUN, closed and labelled on the right) bin of a
\* date: the Sunday on or after it.
WeekEnd(d) == 7 * ((d + 6) \div 7)

\* The sum of Purchase_Amount over the rows of one bin.
BinSum(rows, w) ==
    SumSeq([i \in 1..Len(rows) |->
              IF WeekEnd(rows[i].Purchase_Date) = w THEN rows[i].Purchase_Amount ELSE 0])

\* Resample without the aggregation: one row per CSV row, in file order.
ResamplePerRow(rows) ==
    [i \in 1..Len(rows) |-> [ds |-> 7 * ((rows[i].Purchase_Date + 6) \div 7),
                             y  |-> rows[i].Purchase_Amount]]

\* Resample as a groupby: only the weeks that hold a row, in date order.
ResampleGroupBy(rows) ==
    LET ends == {7 * ((rows[i].Purchase_Date + 6) \div 7) : i \in 1..Len(rows)}
    IN  [k \in 1..Cardinality(ends) |->
            LET w == CHOOSE e \in ends : Cardinality({z \in ends : z < e}) = k - 1
            IN  [ds |-> w,
                 y  |-> SumSeq([i \in 1..Len(rows) |->
                          IF 7 * ((rows[i].Purchase_Date + 6) \div 7) = w
                          THEN rows[i].Purchase_Amount ELSE 0])]]

\* df.set_index('Purchase_Date').resample('W')['Purchase_Amount'].sum():
\* one row per weekly bin from the bin of the earliest date to the bin of the
\* latest, in date order, a bin without rows summing to 0.
Resample(rows) ==
    IF rows = <<>> THEN <<>>
    ELSE LET ends  == {WeekEnd(rows[i].Purchase_Date) : i \in 1..Len(rows)}
             first == Min(ends)
             n     == ((Max(ends) - first) \div 7) + 1
         IN  [k \in 1..n |-> [ds |-> first + 7 * (k - 1),
                              y  |-> BinSum(rows, first + 7 * (k - 1))]]

KeepRow(r) == r.y >= 0

\* df_resampled[df_resampled['y'] >= 0]
FilterNonNegative(df) == SelectSeq(df, KeepRow)

\* The try block of load_and_preprocess_data: None on an exception.
LoadFrame(exists, rows) ==
    IF ~exists THEN None ELSE DataFrame(FilterNonNegative(Resample(rows)))

\* ------------------------------------------------------ the horizon input

DigitChars == <<"0", "1", "2", "3", "4", "5", "6", "7", "8", "9">>

IsDigit(c) == \E i \in 1..10 : DigitChars[i] = c

DigitVal(c) == (CHOOSE i \in 1..10 : DigitChars[i] = c) - 1

RECURSIVE DigitsVal(_, _)
DigitsVal(s, acc) ==
    IF s = <<>> THEN acc ELSE DigitsVal(Tail(s), 10 * acc + DigitVal(Head(s)))

\* int(text) on a str: an optional sign, then one or more decimal digits;
\* anything else is a ValueError (the texts of FormTexts hold no blanks and
\* no underscores, which int() would also accept).
ParseInt(text) ==
    LET signed == text # <<>> /\ Head(text) \in {"-", "+"}
        digits == IF signed THEN Tail(text) ELSE text
    IN  IF digits = <<>> \/ \E i \in 1..Len(digits) : ~IsDigit(digits[i])
        THEN [ok |-> FALSE, v |-> 0]
        ELSE [ok |-> TRUE,
              v  |-> IF signed /\ Head(text) = "-" THEN 0 - DigitsVal(digits, 0)
                     ELSE DigitsVal(digits, 0)]

\* The texts a client posts in the forecast_periods field.
FormTexts == {<<"1">>, <<"1", "4">>, <<"0">>, <<"-", "3">>, <<"a">>, <<>>}

\* A request: its method and the forecast_periods field of its form (None
\* when the form has no such field).
Requests ==
    {[method |-> "GET", form |-> None]} \cup
    {[method |-> "POST", form |-> f] : f \in {None} \cup {Str(t) : t \in FormTexts}}

\* The default horizon of home().
DefaultPeriods == 52

\* HorizonInput without line 78: the rejected value is kept as the horizon.
HorizonInputNoReset(req) ==
    IF req.method # "POST"
    THEN [forecast_periods_input |-> DefaultPeriods, error_message |-> None]
    ELSE LET parsed == IF req.form = None THEN [ok |-> TRUE, v |-> DefaultPeriods]
                       ELSE ParseInt(req.form.s)
         IN  [forecast_periods_input |-> parsed.v,
              error_message |-> IF parsed.ok /\ parsed.v > 0 THEN None
                                ELSE Str("Invalid input for forecast periods")]

\* HorizonInput with line 74 testing < 0: a horizon of 0 is accepted.
HorizonInputAcceptsZero(req) ==
    IF req.method # "POST"
    THEN [forecast_periods_input |-> DefaultPeriods, error_message |-> None]
    ELSE LET parsed == IF req.form = None THEN [ok |-> TRUE, v |-> DefaultPeriods]
                       ELSE ParseInt(req.form.s)
         IN  IF parsed.ok /\ parsed.v >= 0
             THEN [forecast_periods_input |-> parsed.v, error_message |-> None]
             ELSE [forecast_periods_input |-> DefaultPeriods,
                   error_message |-> Str("Invalid input for forecast periods")]

\* Lines 62 and 71-79 of home(): the horizon and the input error message.
HorizonInput(req) ==
    IF req.method # "POST"
    THEN [forecast_periods_input |-> DefaultPeriods, error_message |-> None]
    ELSE LET parsed == IF req.form = None THEN [ok |-> TRUE, v |-> DefaultPeriods]
                       ELSE ParseInt(req.form.s)
         IN  IF parsed.ok /\ parsed.v > 0
             THEN [forecast_periods_input |-> parsed.v, error_message |-> None]
             ELSE [forecast_periods_input |-> DefaultPeriods,
                   error_message |-> Str("Invalid input for forecast periods")]

\* ------------------------------------------------------------- the forecast

\* The fitted models the forecasting library may return.  The library is a
\* black box: a fit is any of these, its prediction at the i-th row of the
\* future frame being odd or even by the parity of i, with an interval of
\* half-width width around it.
ProphetFits ==
    {[odd |-> 2, even |-> 2, width |-> 1],
     [odd |-> 2, even |-> -2, width |-> 1],
     [odd |-> -2, even |-> 2, width |-> 3],
     [odd |-> -2, even |-> -2, width |-> 1],
     [odd |-> 0, even |-> 0, width |-> 3],
     [odd |-> 7, even |-> -2, width |-> 1]}

\* model.fit(df): Prophet raises ValueError on fewer than 2 rows.
FitRaises(history) == Len(history) < 2

\* model.make_future_dataframe(periods, freq='W'): the dates of the history,
\* then the next `periods` Sundays after its last date.
MakeFutureDataframe(history, periods) ==
    LET last == history[Len(history)].ds
    IN  [i \in 1..Len(history) |-> history[i].ds] \o
        [k \in 1..periods |-> WeekEnd(last + 1) + 7 * (k - 1)]

\* model.predict(future): one row per date of the future frame.
Predict(fit, future) ==
    [i \in 1..Len(future) |->
        LET yhat == IF i % 2 = 1 THEN fit.odd ELSE fit.even
        IN  [ds |-> future[i], yhat |-> yhat,
             yhat_lower |-> yhat - fit.width, yhat_upper |-> yhat + fit.width]]

\* ------------------------------------------------ the quarterly aggregation

RECURSIVE Unique(_)
\* Series.unique(): the distinct values, in order of first appearance.
Unique(s) ==
    IF s = <<>> THEN <<>>
    ELSE LET rest == Unique(SelectSeq(Tail(s), LAMBDA x : x # Head(s)))
         IN  <<Head(s)>> \o rest

\* forecast_full[forecast_full['ds'] > last_historical_date], with the
\* quarter and year columns lines 129-130 add.
ForecastFutureOnly(forecast_full, last_historical_date) ==
    LET after == SelectSeq(forecast_full, LAMBDA r : r.ds > last_historical_date)
    IN  [i \in 1..Len(after) |->
            [ds |-> after[i].ds, yhat |-> after[i].yhat,
             quarter |-> DtQuarter(after[i].ds), year |-> DtYear(after[i].ds)]]

\* quarter_data['yhat'].sum() for one (year, quarter)
QuarterSum(future_only, year, quarter_num) ==
    SumSeq([i \in 1..Len(future_only) |->
              IF future_only[i].year = year /\ future_only[i].quarter = quarter_num
              THEN future_only[i].yhat ELSE 0])

\* if predicted_sales > 0
IncludeQuarter(predicted_sales) == predicted_sales > 0

RECURSIVE QuarterLoop(_, _, _)
\* The body of the loops over all_years_in_forecast and range(1, 5), from
\* the k-th (year, quarter) pair on.
QuarterLoop(future_only, years, k) ==
    IF k > 4 * Len(years) THEN <<>>
    ELSE LET year        == years[((k - 1) \div 4) + 1]
             quarter_num == ((k - 1) % 4) + 1
             predicted_sales == QuarterSum(future_only, year, quarter_num)
             rest        == QuarterLoop(future_only, years, k + 1)
         IN  IF IncludeQuarter(predicted_sales)
             THEN <<[year |-> year, quarter |-> quarter_num, yhat |-> predicted_sales]>> \o rest
             ELSE rest

\* (year, quarter) order
QuarterBefore(a, b) ==
    a.year < b.year \/ (a.year = b.year /\ a.quarter <= b.quarter)

\* sort_values(by=['year', 'quarter'], ascending=False): the rows, which
\* the loops append in ascending order, last to first.
SortValuesDescending(s) == [i \in 1..Len(s) |-> s[Len(s) + 1 - i]]

RECURSIVE SortValues(_)
\* seasonal_forecast.sort_values(by=['year', 'quarter']): insertion of the
\* head into the sorted tail.
SortValues(s) ==
    IF s = <<>> THEN <<>>
    ELSE LET rest == SortValues(Tail(s))
             n    == Cardinality({i \in 1..Len(rest) : ~QuarterBefore(Head(s), rest[i])})
         IN  SubSeq(rest, 1, n) \o <<Head(s)>> \o SubSeq(rest, n + 1, Len(rest))

\* all_years_in_forecast
AllYearsInForecast(future_only) ==
    Unique([i \in 1..Len(future_only) |-> future_only[i].year])

\* Lines 126-157: the rows of seasonal_forecast.
SeasonalForecast(forecast_full, last_historical_date) ==
    LET future_only == ForecastFutureOnly(forecast_full, last_historical_date)
    IN  IF future_only = <<>> THEN <<>>
        ELSE SortValues(QuarterLoop(future_only, AllYearsInForecast(future_only), 1))

\* ------------------------------------------------------- the chart series

RECURSIVE SortedSeq(_)
\* The elements of a set of dates in ascending order.
SortedSeq(S) ==
    IF S = {} THEN <<>> ELSE <<Min(S)>> \o SortedSeq(S \ {Min(S)})

\* pd.merge(df_resampled_global, forecast_full[...], on='ds', how='outer')
\* sorted by ds: the ds column of full_plot_data.
FullPlotDates(history, forecast_full) ==
    SortedSeq({history[i].ds : i \in 1..Len(history)} \cup
              {forecast_full[i].ds : i \in 1..Len(forecast_full)})

\* frame[frame['ds'] == ds_date].iloc[0]
RowAt(frame, ds_date) ==
    frame[Min({i \in 1..Len(frame) : frame[i].ds = ds_date})]

\* ds_date in frame['ds'].values
HasDate(frame, ds_date) == \E i \in 1..Len(frame) : frame[i].ds = ds_date

\* Lines 238-240: actual_data_aligned
ActualDataAligned(dates, history) ==
    [i \in 1..Len(dates) |->
        IF HasDate(history, dates[i]) THEN Float(RowAt(history, dates[i]).y) ELSE None]

\* Lines 243-245: whether the loop fills the entry of a date, and the
\* forecast_row it fills it from.
HasForecastRow(forecast_full, ds_date) == HasDate(forecast_full, ds_date)

ForecastRows(dates, forecast_full) ==
    [i \in 1..Len(dates) |->
        IF HasForecastRow(forecast_full, dates[i])
        THEN RowAt(forecast_full, dates[i]) ELSE None]

\* Lines 246-248: one of forecast_data_aligned, forecast_lower_aligned and
\* forecast_upper_aligned, before the override of the seam.
ForecastAligned(forecast_rows, column) ==
    [i \in 1..Len(forecast_rows) |->
        IF forecast_rows[i] = None THEN None ELSE Float(forecast_rows[i][column])]

\* Line 253: the index of the last entry of actual_data_aligned that is not
\* None, 0 when there is none (the code's -1, with indices from 1).
LastActualIndex(actual_data_aligned) ==
    LET set == {i \in 1..Len(actual_data_aligned) : actual_data_aligned[i] # None}
    IN  IF set = {} THEN 0 ELSE Max(set)

\* The seam left as the model predicted it.
SeamNotOverridden(actual_data_aligned, forecast_data_aligned) ==
    forecast_data_aligned

\* Lines 252-256: forecast_data_aligned with the entry at the last actual
\* point replaced by the actual value, when an entry follows it.
SeamOverride(actual_data_aligned, forecast_data_aligned) ==
    LET last_actual_index == LastActualIndex(actual_data_aligned)
    IN  IF /\ actual_data_aligned # <<>>
           /\ forecast_data_aligned # <<>>
           /\ last_actual_index # 0
           /\ last_actual_index < Len(forecast_data_aligned)
        THEN [forecast_data_aligned EXCEPT ![last_actual_index] =
                                               actual_data_aligned[last_actual_index]]
        ELSE forecast_data_aligned

\* The default chart_data_json, "{}".
EmptyChart == [kind |-> "{}"]

\* Lines 196-265: the object json.dumps serialises.  The frames and lists of
\* lines 206-224 (actual_sales_plot, predicted_sales_plot, chart_actuals,
\* ...) are computed and never read, so they are not part of it.
ChartData(history, forecast_full) ==
    LET dates   == FullPlotDates(history, forecast_full)
        actuals == ActualDataAligned(dates, history)
        forecast_rows == ForecastRows(dates, forecast_full)
    IN  [kind        |-> "chart",
         labels      |-> [i \in 1..Len(dates) |-> Strftime(dates[i])],
         actuals     |-> actuals,
         forecasts   |-> SeamOverride(actuals, ForecastAligned(forecast_rows, "yhat")),
         lower_bound |-> ForecastAligned(forecast_rows, "yhat_lower"),
         upper_bound |-> ForecastAligned(forecast_rows, "yhat_upper")]

\* ------------------------------------------------------------------ home()

\* Lines 83-110: the data summary.
DfSummaryHtml(history) ==
    [kind  |-> "summary",
     count |-> Len(history),
     first |-> Strftime(Min({history[i].ds : i \in 1..Len(history)})),
     last  |-> Strftime(Max({history[i].ds : i \in 1..Len(history)})),
     head  |-> SubSeq(history, 1, IF Len(history) < 5 THEN Len(history) ELSE 5)]

\* Lines 149-191: the seasonal forecast section.
ForecastSummaryHtml(forecast_full, last_historical_date, seasonal_forecast) ==
    IF ForecastFutureOnly(forecast_full, last_historical_date) = <<>>
    THEN [kind |-> "No future forecast generated"]
    ELSE IF seasonal_forecast = <<>>
    THEN [kind |-> "No seasonal forecast generated"]
    ELSE [kind |-> "table", rows |-> seasonal_forecast]

\* The locals of home() as line 58-62 set them.
HomeDefaults(req) ==
    [request                |-> req,
     df_summary_html        |-> Str(""),
     forecast_summary_html  |-> Str(""),
     chart_data_json        |-> EmptyChart,
     error_message          |-> None,
     forecast_periods_input |-> DefaultPeriods,
     history                |-> <<>>,
     forecast_full          |-> <<>>,
     seasonal_forecast      |-> <<>>]

\* Lines 66-69: the page of a failed load.
LoadFailedPage(req) ==
    [HomeDefaults(req) EXCEPT
        !.error_message = Str("Failed to load historical sales data")]

\* Lines 71-272 of home(): the locals at the generate_html call, for the
\* weekly frame in df_resampled_global, the request and the fit the
\* forecasting library returns.
HomePage(history, req, fit) ==
    LET input  == HorizonInput(req)
        base   == [HomeDefaults(req) EXCEPT
                      !.error_message = input.error_message,
                      !.forecast_periods_input = input.forecast_periods_input,
                      !.history = history]
        raised == Str("An unexpected error occurred")
    IN  IF history = <<>>
        THEN \* line 86: min() of an empty column is NaT, whose strftime raises
             [base EXCEPT !.error_message = raised]
        ELSE IF FitRaises(history)
        THEN [base EXCEPT !.df_summary_html = DfSummaryHtml(history),
                          !.error_message = raised]
        ELSE LET future   == MakeFutureDataframe(history, input.forecast_periods_input)
                 forecast_full == Predict(fit, future)
                 last_historical_date == Max({history[i].ds : i \in 1..Len(history)})
                 seasonal_forecast == SeasonalForecast(forecast_full, last_historical_date)
             IN  [base EXCEPT
                     !.df_summary_html = DfSummaryHtml(history),
                     !.forecast_full = forecast_full,
                     !.seasonal_forecast = seasonal_forecast,
                     !.forecast_summary_html =
                         ForecastSummaryHtml(forecast_full, last_historical_date, seasonal_forecast),
                     !.chart_data_json = ChartData(history, forecast_full)]

\* ------------------------------------------------------- the state machine

Rows == [Purchase_Date : RowDates, Purchase_Amount : RowAmounts]

\* The CSV files of at most MaxRows rows.
Files == UNION {[1..n -> Rows] : n \in 0..MaxRows}

\* One request, served by thread t1.
OneRequest ==
    {[t \in Threads |-> IF t = "t1" THEN r ELSE None] : r \in Requests}

\* The state after the module is imported, for the requests the threads
\* will serve.
InitWith(requests) ==
    /\ file_exists \in BOOLEAN
    /\ file_rows \in Files
    /\ prophet \in ProphetFits
    /\ request \in requests
    /\ df_resampled_global = None
    /\ started = FALSE
    /\ pc = [t \in Threads |-> "idle"]
    /\ df_resampled = [t \in Threads |-> None]
    /\ page = None
    /\ stores = 0
    /\ failures = 0

Init == InitWith(OneRequest)

\* Two GET requests, one per thread, served concurrently.
TwoRequests == {[t \in Threads |-> [method |-> "GET", form |-> None]]}

InitServer == InitWith(TwoRequests)

\* The global after a call of load_and_preprocess_data that found it None
\* and got `loaded` from its try block (line 44 runs only without exception).
StoreGlobal(loaded) == IF loaded # None THEN loaded ELSE df_resampled_global

\* The counts of executions of line 44 and of line 50 after such a call.
StoresAfter(loaded) == IF loaded # None THEN stores + 1 ELSE stores
FailuresAfter(loaded) == IF loaded = None THEN failures + 1 ELSE failures

\* Lines 469-472: the startup call, made before app.run() serves requests.
Startup ==
    /\ ~started
    /\ started' = TRUE
    /\ df_resampled_global' = StoreGlobal(LoadFrame(file_exists, file_rows))
    /\ stores' = StoresAfter(LoadFrame(file_exists, file_rows))
    /\ failures' = FailuresAfter(LoadFrame(file_exists, file_rows))
    /\ UNCHANGED <<file_exists, file_rows, prophet, request, pc, df_resampled, page>>

\* The environment puts the CSV file in place.
RestoreFile ==
    /\ ~file_exists
    /\ file_exists' = TRUE
    /\ UNCHANGED <<file_rows, prophet, request, df_resampled_global, started, pc,
                   df_resampled, page, stores, failures>>

\* home() up to line 64 and lines 27-29 of load_and_preprocess_data: the
\* cached frame is returned, or the call goes on to read the file.
HomeEnter(t) ==
    /\ started
    /\ pc[t] = "idle"
    /\ request[t] # None
    /\ IF df_resampled_global # None
       THEN /\ df_resampled' = [df_resampled EXCEPT ![t] = df_resampled_global]
            /\ pc' = [pc EXCEPT ![t] = "render"]
       ELSE /\ pc' = [pc EXCEPT ![t] = "load"]
            /\ UNCHANGED df_resampled
    /\ UNCHANGED <<file_exists, file_rows, prophet, request, df_resampled_global,
                   started, page, stores, failures>>

\* Lines 31-50 of load_and_preprocess_data, called from home().
LoadBody(t) ==
    /\ pc[t] = "load"
    /\ LET loaded == LoadFrame(file_exists, file_rows)
       IN  /\ df_resampled_global' = StoreGlobal(loaded)
           /\ df_resampled' = [df_resampled EXCEPT ![t] = loaded]
           /\ stores' = StoresAfter(loaded)
           /\ failures' = FailuresAfter(loaded)
    /\ pc' = [pc EXCEPT ![t] = "render"]
    /\ UNCHANGED <<file_exists, file_rows, prophet, request, started, page>>

\* Lines 66-272 of home(): the page of the request.
HomeRender(t) ==
    /\ pc[t] = "render"
    /\ page' = IF df_resampled[t] = None
               THEN LoadFailedPage(request[t])
               ELSE HomePage(df_resampled_global.rows, request[t], prophet)
    /\ pc' = [pc EXCEPT ![t] = "idle"]
    /\ df_resampled' = [df_resampled EXCEPT ![t] = None]
    /\ request' = [request EXCEPT ![t] = None]
    /\ UNCHANGED <<file_exists, file_rows, prophet, df_resampled_global, started,
                   stores, failures>>

Next ==
    \/ Startup
    \/ RestoreFile
    \/ \E t \in Threads : HomeEnter(t)
    \/ \E t \in Threads : LoadBody(t)
    \/ \E t \in Threads : HomeRender(t)

Spec == Init /\ [][Next]_vars

\* The server with two request threads at work.
SpecServer == InitServer /\ [][Next]_vars

\* ================================================================= claims

\* The weekly series, once a load has stored it.
Loaded == df_resampled_global # None
weekly == df_resampled_global.rows

\* A Sunday is a day number divisible by 7; the week of a day ends on the
\* first Sunday on or after it.
IsSunday(d) == d % 7 = 0
ContainingWeekEnd(d) == CHOOSE s \in d..(d + 6) : IsSunday(s)

\* The rows of the CSV dated in the week ending on w, and the sum of a set
\* of rows (given by their indices).
RowsOfWeek(w) == {j \in 1..Len(file_rows) : ContainingWeekEnd(file_rows[j].Purchase_Date) = w}

RECURSIVE AmountOf(_)
AmountOf(J) ==
    IF J = {} THEN 0
    ELSE LET j == CHOOSE x \in J : TRUE
         IN  file_rows[j].Purchase_Amount + AmountOf(J \ {j})

BucketDates == {weekly[i].ds : i \in 1..Len(weekly)}

AmountsNonNegative == \A j \in 1..Len(file_rows) : file_rows[j].Purchase_Amount >= 0

Row(d, a) == [Purchase_Date |-> d, Purchase_Amount |-> a]

\* C1: every bucket of the loaded weekly series is keyed by a week-ending
\* Sunday and totals exactly the records dated in that week (a Sunday record
\* in the week ending that day); every transaction record (amounts are
\* non-negative by the data model) has the bucket of its week in the series;
\* and records (2024-01-02, 10), (2024-01-05, 5), (2024-01-09, 7) give the
\* buckets (2024-01-07, 15), (2024-01-14, 7).
C1_WeeklyBucketing ==
    /\ Loaded =>
          /\ \A i \in 1..Len(weekly) :
                /\ IsSunday(weekly[i].ds)
                /\ weekly[i].y = AmountOf(RowsOfWeek(weekly[i].ds))
          /\ AmountsNonNegative =>
                \A j \in 1..Len(file_rows) :
                    ContainingWeekEnd(file_rows[j].Purchase_Date) \in BucketDates
    /\ LoadFrame(TRUE, <<Row(2, 10), Row(5, 5), Row(9, 7)>>)
          = DataFrame(<<[ds |-> 7, y |-> 15], [ds |-> 14, y |-> 7]>>)

\* A loaded series whose one bucket sums a Tuesday and a Sunday record of the
\* same week.
C1_Witness ==
    /\ Loaded
    /\ Len(file_rows) = 2
    /\ file_rows[1].Purchase_Date = 2 /\ file_rows[2].Purchase_Date = 7
    /\ weekly = <<[ds |-> 7, y |-> 20]>>

\* C2: the week_end_date values of the loaded weekly series are strictly
\* increasing (so no two buckets share a date), also when the y >= 0 filter
\* has removed buckets.
C2_StrictlyIncreasing ==
    Loaded => \A i, j \in 1..Len(weekly) : i < j => weekly[i].ds < weekly[j].ds

\* A loaded series of several buckets, out of a CSV whose rows are not in
\* date order and one of whose weeks the filter removed.
C2_Witness ==
    /\ Loaded
    /\ Len(weekly) >= 2
    /\ Len(file_rows) = 2
    /\ file_rows[1].Purchase_Date > file_rows[2].Purchase_Date
    /\ \E j \in 1..Len(file_rows) :
          ContainingWeekEnd(file_rows[j].Purchase_Date) \notin BucketDates

\* The weeks of the earliest and of the latest record.
FirstWeek == ContainingWeekEnd(Min({file_rows[j].Purchase_Date : j \in 1..Len(file_rows)}))
LastWeek == ContainingWeekEnd(Max({file_rows[j].Purchase_Date : j \in 1..Len(file_rows)}))

\* C3 as stated: every bucket of the loaded series is for a week in which at
\* least one record falls.
C3_NoSynthesizedWeek ==
    Loaded => \A i \in 1..Len(weekly) : RowsOfWeek(weekly[i].ds) # {}

\* C3 amended: a bucket of the loaded series is for a week that holds a
\* record, or for a week strictly between the weeks of the earliest and the
\* latest record and then its total is 0; and every record-free week strictly
\* between those two has such a bucket.
C3_GapWeeksAreZero ==
    Loaded /\ file_rows # <<>> =>
        /\ \A i \in 1..Len(weekly) :
              \/ RowsOfWeek(weekly[i].ds) # {}
              \/ /\ weekly[i].y = 0
                 /\ FirstWeek < weekly[i].ds /\ weekly[i].ds < LastWeek
        /\ \A w \in (FirstWeek + 1)..(LastWeek - 1) :
              IsSunday(w) /\ RowsOfWeek(w) = {} =>
                  \E i \in 1..Len(weekly) : weekly[i].ds = w /\ weekly[i].y = 0

\* A loaded series with a bucket for a week without records.
C3_Witness ==
    /\ Loaded
    /\ \E i \in 1..Len(weekly) : RowsOfWeek(weekly[i].ds) = {} /\ weekly[i].y = 0

\* The non-negative records of a week.
ValidRowsOfWeek(w) == {j \in RowsOfWeek(w) : file_rows[j].Purchase_Amount >= 0}

\* C4 as stated: records with a negative amount are filtered out one by one,
\* so every week with a non-negative record has a bucket, whose total is the
\* sum of the week's non-negative records.
C4_NegativeRecordsFiltered ==
    Loaded =>
        \A j \in 1..Len(file_rows) :
            LET w == ContainingWeekEnd(file_rows[j].Purchase_Date)
            IN  file_rows[j].Purchase_Amount >= 0 =>
                    \E i \in 1..Len(weekly) :
                        weekly[i].ds = w /\ weekly[i].y = AmountOf(ValidRowsOfWeek(w))

\* C5 as stated: when no valid record remains, the load fails: no empty
\* weekly series is cached, and none reaches the forecasting and assembly
\* stages of home().
C5_EmptyInputFails ==
    /\ Loaded => weekly # <<>>
    /\ \A t \in Threads : df_resampled[t] # None => df_resampled[t].rows # <<>>

\* ------------------------------------------------- claims about the page

Rendered == page # None
ChartBuilt == Rendered /\ page.chart_data_json.kind = "chart"
chart == page.chart_data_json

\* The last historical week of the request, and the entry of a date in the
\* chart's lists.
LastHistoricalDate == Max({page.history[i].ds : i \in 1..Len(page.history)})
EntryOf(d) == CHOOSE i \in 1..Len(chart.labels) : chart.labels[i] = Strftime(d)
ActualAt(d) == (CHOOSE r \in {page.history[i] : i \in 1..Len(page.history)} : r.ds = d).y
RawForecastAt(d) ==
    CHOOSE r \in {page.forecast_full[i] : i \in 1..Len(page.forecast_full)} : r.ds = d

\* C6: in the chart series of a request, the entry at the boundary date (the
\* last historical week) has predicted equal to that week's actual value,
\* and its lower and upper bounds are the forecast's own.
C6_SeamIsActual ==
    ChartBuilt =>
        LET b == EntryOf(LastHistoricalDate)
        IN  /\ chart.actuals[b] = Float(ActualAt(LastHistoricalDate))
            /\ chart.forecasts[b] = Float(ActualAt(LastHistoricalDate))
            /\ chart.lower_bound[b] = Float(RawForecastAt(LastHistoricalDate).yhat_lower)
            /\ chart.upper_bound[b] = Float(RawForecastAt(LastHistoricalDate).yhat_upper)

\* A chart for a horizon of one week whose model predicted, at the boundary
\* date, a value other than the actual one.
C6_Witness ==
    /\ ChartBuilt
    /\ page.forecast_periods_input = 1
    /\ RawForecastAt(LastHistoricalDate).yhat # ActualAt(LastHistoricalDate)
    /\ chart.forecasts[EntryOf(LastHistoricalDate)] # None

ActualOnly(i) ==
    /\ chart.actuals[i] # None
    /\ chart.forecasts[i] = None /\ chart.lower_bound[i] = None /\ chart.upper_bound[i] = None

PredictedOnly(i) ==
    /\ chart.actuals[i] = None
    /\ chart.forecasts[i] # None /\ chart.lower_bound[i] # None /\ chart.upper_bound[i] # None

\* C7 as stated: every entry of the chart series is actual-only or
\* predicted-only, except the one at the boundary date; an entry of an
\* earlier historical date carries no predicted, lower or upper value.
C7_ActualOrPredicted ==
    ChartBuilt =>
        \A i \in 1..Len(chart.labels) :
            ActualOnly(i) \/ PredictedOnly(i) \/ i = EntryOf(LastHistoricalDate)

\* C8 as stated: a forecast whose earliest date is before the latest
\* historical date makes the assembly fail: the request ends with an error
\* and no chart series.
C8_DisjointSeriesFails ==
    Rendered /\ page.forecast_full # <<>> =>
        (Min({page.forecast_full[i].ds : i \in 1..Len(page.forecast_full)}) < LastHistoricalDate
            => page.chart_data_json = EmptyChart /\ page.error_message # None)

\* The forecast points of a (year, quarter) dated after the last historical
\* week, and their summed prediction.
GroupPoints(y, q) ==
    {i \in 1..Len(page.forecast_full) :
        /\ page.forecast_full[i].ds > LastHistoricalDate
        /\ DtYear(page.forecast_full[i].ds) = y
        /\ DtQuarter(page.forecast_full[i].ds) = q}

RECURSIVE PredictedOf(_)
PredictedOf(I) ==
    IF I = {} THEN 0
    ELSE LET i == CHOOSE x \in I : TRUE
         IN  page.forecast_full[i].yhat + PredictedOf(I \ {i})

InRollup(y, q) ==
    \E k \in 1..Len(page.seasonal_forecast) :
        page.seasonal_forecast[k].year = y /\ page.seasonal_forecast[k].quarter = q

\* C9 as stated: a (year, quarter) group is left out of the rollup if and
\* only if its summed prediction is exactly zero; a group with a nonzero sum,
\* of either sign, is in the rollup with that sum.
C9_OmittedIffZero ==
    Rendered /\ page.forecast_full # <<>> =>
        \A y \in 2024..2026, q \in 1..4 :
            LET total == PredictedOf(GroupPoints(y, q))
            IN  /\ InRollup(y, q) <=> total # 0
                /\ total # 0 =>
                      [year |-> y, quarter |-> q, yhat |-> total] \in
                          {page.seasonal_forecast[k] : k \in 1..Len(page.seasonal_forecast)}

\* C10: the quarterly rollup of a request is strictly increasing by
\* (year, quarter): sorted, and without two entries of the same pair.
C10_RollupStrictlyIncreasing ==
    Rendered =>
        \A i, j \in 1..Len(page.seasonal_forecast) :
            i < j =>
                LET a == page.seasonal_forecast[i]
                    b == page.seasonal_forecast[j]
                IN  a.year < b.year \/ (a.year = b.year /\ a.quarter < b.quarter)

\* A rollup with quarters of two calendar years.
C10_Witness ==
    /\ Rendered
    /\ \E i, j \in 1..Len(page.seasonal_forecast) :
          page.seasonal_forecast[i].year < page.seasonal_forecast[j].year
    /\ Len(page.seasonal_forecast) >= 3

\* ------------------------------------------- claims about the global cache

\* C11 as stated: in every interleaving of the startup call and concurrent
\* requests the weekly series is read and resampled at most once, and line
\* 44 never assigns df_resampled_global again once it is set.
C11_ComputedAtMostOnce == stores <= 1

\* C12 as stated: once a call of load_and_preprocess_data has failed, no
\* later call attempts the load again (so none fails a second time) and none
\* obtains a loaded series.
C12_FailureIsSticky ==
    /\ failures <= 1
    /\ failures >= 1 => stores = 0 /\ df_resampled_global = None

\* ------------------------------------------- claims about a failed request

LoadFailed == page.error_message = Str("Failed to load historical sales data")
InputRejected == page.error_message = Str("Invalid input for forecast periods")
PipelineRaised == page.error_message = Str("An unexpected error occurred")

\* C13 as stated: a request that ends with an error message hands the
\* default chart data "{}" to generate_html and has computed no forecast.
C13_ErrorIsFatal ==
    Rendered /\ page.error_message # None =>
        page.chart_data_json = EmptyChart /\ page.forecast_full = <<>>

\* C13 amended: a request that ends with the message of a load failure or of
\* an exception in the pipeline hands the default chart data "{}" to
\* generate_html (and after a load failure no forecast was computed); an
\* invalid horizon input alone is not fatal: the request goes on with the
\* default horizon 52 and ends with the input error message together with
\* the forecast and the chart series for 52 weeks.
C13_OnlyLoadAndPipelineErrorsAreFatal ==
    Rendered =>
        /\ LoadFailed =>
              /\ page.chart_data_json = EmptyChart
              /\ page.forecast_full = <<>>
              /\ page.seasonal_forecast = <<>>
        /\ PipelineRaised => page.chart_data_json = EmptyChart
        /\ InputRejected =>
              /\ page.forecast_periods_input = 52
              /\ page.chart_data_json.kind = "chart"
              /\ Len(page.forecast_full) = Len(page.history) + 52
              /\ Len(page.chart_data_json.labels) = Len(page.history) + 52

\* A request with a rejected horizon input that ends with a chart.
C13_Witness ==
    /\ Rendered
    /\ InputRejected
    /\ page.request.form = Str(<<"0">>)
    /\ page.chart_data_json.kind = "chart"

\* The horizon a request asks for, read off its form text: 0 when the text is
\* no positive integer.
AskedHorizon(req) ==
    IF req.method = "GET" \/ req.form = None THEN 52
    ELSE IF req.form.s = <<"1">> THEN 1
    ELSE IF req.form.s = <<"1", "4">> THEN 14
    ELSE 0

\* C14: a request whose load succeeded runs with a positive horizon: 52 for
\* a GET, n for a POST whose forecast_periods is an integer n > 0, without an
\* input error message, and 52 with an error message for a POST whose
\* forecast_periods is no integer or is <= 0; the forecaster, when invoked,
\* gets that horizon (one forecast row per historical week and per week of
\* the horizon), and the page echoes it.
C14_PositiveHorizon ==
    Rendered /\ ~LoadFailed =>
        LET asked == AskedHorizon(page.request)
        IN  /\ page.forecast_periods_input > 0
            /\ asked > 0 => page.forecast_periods_input = asked /\ ~InputRejected
            /\ asked = 0 => page.forecast_periods_input = 52 /\ page.error_message # None
            /\ page.forecast_full # <<>> =>
                  Len(page.forecast_full) = Len(page.history) + page.forecast_periods_input

\* A POST of "-3" answered with the forecast for 52 weeks and the input
\* error message, and a POST of "14" answered with the forecast for 14.
C14_Witness ==
    /\ Rendered
    /\ page.forecast_full # <<>>
    /\ \/ /\ page.request.form = Str(<<"-", "3">>)
          /\ InputRejected
          /\ page.forecast_periods_input = 52
       \/ /\ page.request.form = Str(<<"1", "4">>)
          /\ page.error_message = None
          /\ page.forecast_periods_input = 14

====
